---------------------------- MODULE Spec2Model ----------------------------
(***************************************************************************)
(* A model of the year-keyed snapshot cache and fetcher                    *)
(* (services/geminiService: fetchHistoricalContext), the application's     *)
(* load pipeline (App.loadData, the Timeline's commitInput) and the        *)
(* playback loop of the VideoGenerator (handlePlay), its screen recording  *)
(* (handleStartRecording, handleStopRecording) and the map's click         *)
(* handlers (components/Map).                                              *)
(*                                                                         *)
(* JavaScript runs one task to completion before the next starts, and the  *)
(* continuation of an await on an already settled promise runs before any  *)
(* other task.  One action of this model is therefore one task: a user     *)
(* event handler up to its first await on the network or on a timer, the   *)
(* settling of one external call with everything that continues from it,   *)
(* or the expiry of one pacing timer with everything that continues from   *)
(* it.                                                                     *)
(***************************************************************************)
EXTENDS Integers, Sequences, FiniteSets, TLC

VARIABLES
    cache,          \* geminiService: cache, Map<number, HistoricalData>
    pending,        \* external generateContent calls in flight
    nCalls,         \* number of external calls issued so far
    currentYear,    \* App: currentYear
    historicalData, \* App: historicalData
    loading,        \* App: loading
    error,          \* App: error
    lastLoad,       \* argument of the most recent loadData call
    startYear,      \* VideoGenerator: startYear
    endYear,        \* VideoGenerator: endYear
    step,           \* VideoGenerator: step
    isPlaying,      \* VideoGenerator: isPlaying (render state)
    isPlayingRef,   \* VideoGenerator: isPlayingRef.current
    runs,           \* the handlePlay invocations that entered the loop
    alert,          \* the alert() dialog raised by the last task, if any
    selectedRegime,    \* App: selectedRegime
    selectedAreaName,  \* App: selectedAreaName
    geoData,           \* Map: geoData, the features once loaded
    isRecording,       \* VideoGenerator: isRecording (render state)
    mediaRecorderRef,  \* VideoGenerator: mediaRecorderRef.current
    recordedChunksRef, \* VideoGenerator: recordedChunksRef.current
    captures,          \* the handleStartRecording invocations, in order
    downloads,         \* the files saved by a.click(), in order
    mounted,           \* the VideoGenerator is mounted
    recOp,             \* the recording operation run by the last task
    drawn,             \* Map: the countryColorMap the drawn paths were
                       \* filled from and their listeners look codes up in
    zoomT,             \* Map: the transform d3-zoom keeps on the svg node
    gT,                \* Map: the transform attribute of the drawn group
    gestures           \* number of zoom gestures made so far

selVars == <<selectedRegime, selectedAreaName>>
recVars == <<isRecording, mediaRecorderRef, recordedChunksRef, captures,
             downloads, mounted, recOp>>

viewVars == <<drawn, zoomT, gT, gestures>>
mapVars == <<geoData, viewVars>>

vars == <<cache, pending, nCalls, currentYear, historicalData,
          loading, error, lastLoad, startYear, endYear, step, isPlaying,
          isPlayingRef, runs, alert, selVars, mapVars, recVars>>

appVars == <<currentYear, historicalData, loading, error, lastLoad>>
fetchVars == <<cache, pending, nCalls>>
configVars == <<startYear, endYear, step>>
playVars == <<isPlaying, isPlayingRef, runs>>

-----------------------------------------------------------------------------
(* Bounds of the model *)

\* external calls issued in one behaviour
MaxCalls == 3
\* handlePlay invocations that enter the loop in one behaviour
MaxRuns == 2
\* handleStartRecording invocations in one behaviour
MaxRecordings == 2
\* notifications kept in the log of a run (its latest ones)
MaxVisits == 3

(* Program constants *)

\* App: useState<number>(1000)
InitialYear == 1000
\* Timeline props min / max passed by App
TimelineMin == 0 - 2000
TimelineMax == 2000

(* Inputs *)

\* values typed into the "quick jump" box (parsed integers)
InputValues == {0, TimelineMax + 1}
\* positions of the range slider
SliderValues == {0}
\* values typed into the generator's three number boxes
StartYearInputs == {0, 3}
EndYearInputs == {1, 2}
StepInputs == {1, 2}
\* values the step box delivers: min={1} constrains the spinner, not what
\* onChange passes to setStep
StepBoxValues == {0 - 1, 0, 1}

-----------------------------------------------------------------------------
(* types.ts: HistoricalRegime, HistoricalData *)

Rome == [name |-> "Rome", color |-> "#8b0000", isoCodes |-> <<"ITA">>,
         events |-> <<"e1">>]

RegimeLists == { <<Rome>> }

\* a second regime listing a code that Rome lists
Odoacer == [name |-> "Odoacer", color |-> "#00008b", isoCodes |-> <<"ITA">>,
            events |-> <<"e2">>]

\* snapshots in which two regimes claim one code, in either order
ContestedLists == { <<Rome, Odoacer>>, <<Odoacer, Rome>> }

\* the value of a useState<HistoricalRegime | null>(null)
NoRegime == [name |-> "", color |-> "", isoCodes |-> <<>>, events |-> <<>>]
\* the value of a useState<string | null>(null)
NoArea == ""

\* types.ts: GeoJsonFeature (id, properties.name)
Features == { [id |-> "ITA", name |-> "Italy"],
              [id |-> "FRA", name |-> "France"] }
\* the value of a useState<any | null>(null)
NoGeo == {}
\* the area name the background click passes
Ocean == "Ocean"

\* the value of a useState<HistoricalData | null>(null); oid 0 is no object
NoData == [oid |-> 0, year |-> 0, summary |-> "", hasRegimes |-> FALSE,
           regimes |-> <<>>]

NoError == ""
LoadError == "load failed"
NoAlert == ""
RangeAlert == "start year after end year"
RecordAlert == "cannot start recording"
Unavailable == "data unavailable for this period"

(* What the external service can answer to one generateContent call.       *)
(*   reject   the awaited call throws (network, quota, ...)                *)
(*   empty    response.text is empty or undefined                          *)
(*   badjson  response.text is not JSON: JSON.parse throws                 *)
(*   null     response.text is the JSON null (or a JSON number, string or  *)
(*            boolean): data.year = year throws a TypeError                *)
(*   json     response.text is a JSON object; it reports a year (the       *)
(*            requested one plus yearOff) and has a regimes field or not   *)
FailureKinds == {"reject", "empty", "badjson", "null"}

NoPayload == [yearOff |-> 0, summary |-> "", hasRegimes |-> FALSE,
              regimes |-> <<>>]

FailureResponses == { [kind |-> k, data |-> NoPayload] : k \in FailureKinds }

JsonResponses ==
    { [kind |-> "json",
       data |-> [yearOff |-> o, summary |-> "s", hasRegimes |-> TRUE,
                 regimes |-> r]] : o \in {0, 1}, r \in RegimeLists }
    \cup
    { [kind |-> "json",
       data |-> [yearOff |-> o, summary |-> "s", hasRegimes |-> FALSE,
                 regimes |-> <<>>]] : o \in {0, 1} }

Responses == FailureResponses \cup JsonResponses

\* the service answers with a snapshot of ContestedLists
ContestedResponses ==
    { [kind |-> "json",
       data |-> [yearOff |-> 0, summary |-> "s", hasRegimes |-> TRUE,
                 regimes |-> r]] : r \in ContestedLists }

-----------------------------------------------------------------------------
(* services/geminiService.ts: fetchHistoricalContext *)

\* line 11: cache.has(year)
CacheHas(c, year) == year \in DOMAIN c

\* the hit returns a copy of the cached object
CacheGetCopy(c, year) == [c[year] EXCEPT !.oid = 0 - c[year].oid]

\* line 12: cache.get(year)!
CacheGet(c, year) == c[year]

\* lines 35-79: the try block throws for this response
TryThrows(resp) == resp.kind \in FailureKinds

\* line 74 missing: the year the service reported is kept
ParsedDataKeepsReportedYear(year, resp, oid) ==
    [oid |-> oid, year |-> year + resp.data.yearOff,
     summary |-> resp.data.summary,
     hasRegimes |-> resp.data.hasRegimes, regimes |-> resp.data.regimes]

\* lines 72-74: JSON.parse(response.text), then data.year = year
ParsedData(year, resp, oid) ==
    [oid |-> oid, year |-> year, summary |-> resp.data.summary,
     hasRegimes |-> resp.data.hasRegimes, regimes |-> resp.data.regimes]

\* lines 83-87: the fallback object literal
Fallback(year, oid) ==
    [oid |-> oid, year |-> year, summary |-> Unavailable,
     hasRegimes |-> TRUE, regimes |-> <<>>]

\* the catch block rethrows what the try block threw
FetchRethrows(resp) == resp.kind \in FailureKinds

\* lines 80-88: the catch block returns, it never rethrows
FetchRaises(resp) == FALSE

\* lines 71-88: the value the call resolves with
FetchReturn(year, resp, oid) ==
    IF TryThrows(resp) THEN Fallback(year, oid)
    ELSE ParsedData(year, resp, oid)

\* cache.set moved after the try/catch: the fallback is stored too
CacheAfterStoresFallback(c, year, resp, oid) ==
    IF resp.kind \in FailureKinds THEN (year :> Fallback(year, oid)) @@ c
    ELSE (year :> ParsedData(year, resp, oid)) @@ c

\* line 75: cache.set(year, data), on the success path only
CacheAfter(c, year, resp, oid) ==
    IF TryThrows(resp) THEN c
    ELSE (year :> ParsedData(year, resp, oid)) @@ c

-----------------------------------------------------------------------------
(* components/Timeline.tsx *)

\* lines 188-195 of commitInput: clamp, then skip year 0.  Its callers pass
\* numbers only (lines 171-173 and 181-183 test isNaN first, localYear is a
\* parsed slider position), so the isNaN branch of line 190 is not taken.
commitInput(val) ==
    LET a == IF val < TimelineMin THEN TimelineMin ELSE val
        b == IF a > TimelineMax THEN TimelineMax ELSE a
    IN  IF b = 0 THEN 1 ELSE b

\* Timeline keeps localYear equal to the year prop: the [year] effect and
\* every handler that sets one sets the other
localYear == currentYear

-----------------------------------------------------------------------------
(* components/Map.tsx: the index, the fills and the render effect *)

\* the region codes a regime lists
Codes(regime) == {regime.isoCodes[k] : k \in DOMAIN regime.isoCodes}

\* the positions, in the snapshot's list, of the regimes that list iso
Owners(d, iso) == {k \in DOMAIN d.regimes : iso \in Codes(d.regimes[k])}

\* the largest element of a non-empty set of numbers
MaxOf(S) == CHOOSE x \in S : \A y \in S : y <= x

\* the first regime to list a code keeps it
mapSetKeepsFirst(m, iso, regime) ==
    IF iso \in DOMAIN m THEN m ELSE (iso :> regime) @@ m

\* line 46: map.set(iso, { regime }); an entry already there is replaced
mapSet(m, iso, regime) == (iso :> regime) @@ m

RECURSIVE SetCodes(_, _, _)
\* lines 45-47: regime.isoCodes.forEach(iso => map.set(...)), from code k on
SetCodes(m, regime, k) ==
    IF k > Len(regime.isoCodes) THEN m
    ELSE SetCodes(mapSet(m, regime.isoCodes[k], regime), regime, k + 1)

RECURSIVE SetRegimes(_, _, _)
\* lines 44-48: historicalData.regimes.forEach(...), from regime k on
SetRegimes(m, regimes, k) ==
    IF k > Len(regimes) THEN m
    ELSE SetRegimes(SetCodes(m, regimes[k], 1), regimes, k + 1)

\* lines 40-50: countryColorMap, the value of the memo for snapshot d
countryColorMap(d) ==
    IF d = NoData THEN [iso \in {} |-> NoRegime]
    ELSE SetRegimes([iso \in {} |-> NoRegime], d.regimes, 1)

\* line 104: the fill of a feature no regime lists
NeutralFill == "#cbd5e1"

\* lines 101-105: the fill of feature f under index m
fill(m, f) == IF f.id \in DOMAIN m THEN m[f.id].color ELSE NeutralFill

\* the scale, in hundredths, and the translation, in hundredths of the half
\* width and half height of the viewport, of d3.zoomIdentity
IdentityScale == 100
IdentityT == [k |-> IdentityScale, x |-> 0, y |-> 0]

\* line 168: scaleExtent([0.8, 8]), in hundredths
MinScale == 80
MaxScale == 800

\* line 188: the scale factors of the two buttons, in hundredths
ZoomInFactor == 130
ZoomOutFactor == 70
ZoomFactors == {ZoomInFactor, ZoomOutFactor}

\* number of zoom gestures explored
MaxGestures == 2

\* zoom.scaleBy(selection, factor): the scale is multiplied and kept within
\* the scale extent; the centre of the viewport stays where it is
scaleBy(t, factor) ==
    LET k  == (t.k * factor) \div 100
        kc == IF k < MinScale THEN MinScale
              ELSE IF k > MaxScale THEN MaxScale ELSE k
    IN  [k |-> kc, x |-> IdentityScale - kc, y |-> IdentityScale - kc]

\* the new group is given the transform d3-zoom holds for the svg
NewGroupKeepsTransform(t) == t

\* line 64: svg.append("g"), a group without a transform attribute
NewGroup(t) == IdentityT

\* the effect depends on geoData only
EffectRunsOnGeoOnly(geo, data) == geo # geoData

\* line 184: the dependencies [geoData, countryColorMap] of the render
\* effect; the memo has the dependency [historicalData] (line 50)
EffectRuns(geo, data) == geo # geoData \/ data # historicalData

\* lines 53-184: the commit that makes geo and data the map's geometry and
\* snapshot, and the render effect after it.  The effect returns at line
\* 54 without geometry; the memo throws at line 44, before any effect, on
\* a snapshot without regimes.  Otherwise line 62 removes what was drawn
\* and the map is drawn anew: a new group, fills and listeners from the
\* memo's index.  svg.call(zoom) keeps the transform the svg node has.
Render(geo, data) ==
    /\ IF /\ geo # NoGeo
          /\ data = NoData \/ data.hasRegimes
          /\ EffectRuns(geo, data)
       THEN /\ drawn' = countryColorMap(data)
            /\ gT' = NewGroup(zoomT)
       ELSE UNCHANGED <<drawn, gT>>
    /\ UNCHANGED <<zoomT, gestures>>

-----------------------------------------------------------------------------
(* App.tsx: loadData *)

\* lines 24-41 up to the point where the call suspends on the network, or
\* through to the end when the cache answers
loadData(year, run) ==
    /\ currentYear' = year
    /\ lastLoad' = year
    /\ error' = NoError
    /\ selectedRegime' = NoRegime
    /\ selectedAreaName' = NoArea
    /\ IF CacheHas(cache, year)
       THEN /\ historicalData' = CacheGet(cache, year)
            /\ Render(geoData, CacheGet(cache, year))
            /\ loading' = FALSE
            /\ UNCHANGED <<cache, pending, nCalls>>
       ELSE /\ nCalls < MaxCalls
            /\ nCalls' = nCalls + 1
            /\ pending' = pending \cup
                   {[id |-> nCalls + 1, year |-> year, run |-> run]}
            /\ loading' = TRUE
            /\ UNCHANGED <<cache, historicalData, viewVars>>

-----------------------------------------------------------------------------
(* components/VideoGenerator.tsx: handlePlay *)

\* line 114: the loop condition
LoopCond(ref, y, e) == ref /\ y <= e

\* the log of a run: its latest notifications; a log that outgrows
\* MaxVisits drops its two oldest entries
LastVisits(seq) ==
    IF Len(seq) <= MaxVisits THEN seq
    ELSE SubSeq(seq, 3, Len(seq))

\* a handlePlay invocation that has returned.  Of the fields of a run,
\* cancelled records that the stop button was pressed during the run and
\* midFetch that it was pressed while the run's current onYearChange call
\* was pending.
Returned == [y |-> 0, endYear |-> 0, step |-> 0, pc |-> "done",
             notified |-> <<>>, cancelled |-> FALSE, midFetch |-> FALSE]

\* lines 130-133: finally
Finally(i) ==
    /\ runs' = [runs EXCEPT ![i] = Returned]
    /\ isPlaying' = FALSE
    /\ isPlayingRef' = FALSE

\* the press that stops the playback also clears the recording flag
PlayStopClearsRecording ==
    /\ isPlayingRef
    /\ isPlayingRef' = FALSE
    /\ isPlaying' = FALSE
    /\ isRecording' = FALSE
    /\ alert' = NoAlert
    /\ UNCHANGED <<appVars, fetchVars, configVars, runs, selVars, mapVars,
                   mediaRecorderRef, recordedChunksRef, captures, downloads,
                   mounted, recOp>>

\* lines 87-91: a press while playing stops
PlayStop ==
    /\ isPlayingRef
    /\ isPlayingRef' = FALSE
    /\ isPlaying' = FALSE
    /\ runs' = [i \in DOMAIN runs |->
                 IF runs[i].pc # "done"
                 THEN [runs[i] EXCEPT !.cancelled = TRUE,
                                      !.midFetch = (runs[i].pc = "fetching")]
                 ELSE runs[i]]
    /\ alert' = NoAlert
    /\ UNCHANGED <<appVars, fetchVars, configVars, selVars, mapVars, recVars>>

\* the rejected press returns without resetting the ref set at line 95
RejectedRefNotReset == TRUE

\* line 108: the value the rejected press leaves in isPlayingRef.current
RejectedRef == FALSE

\* lines 94-110: the safety check rejects the range
PlayReject ==
    /\ ~isPlayingRef
    /\ startYear > endYear
    /\ alert' = RangeAlert
    /\ isPlaying' = FALSE
    /\ isPlayingRef' = RejectedRef
    /\ UNCHANGED <<appVars, fetchVars, configVars, runs, selVars, mapVars,
                   recVars>>

\* lines 94-116: the press enters the loop and loads the first year
PlayStart ==
    /\ ~isPlayingRef
    /\ ~(startYear > endYear)
    /\ Len(runs) < MaxRuns
    /\ LoopCond(TRUE, startYear, endYear)
    /\ isPlaying' = TRUE
    /\ isPlayingRef' = TRUE
    /\ loadData(startYear, Len(runs) + 1)
    /\ runs' = Append(runs,
                 [y |-> startYear, endYear |-> endYear, step |-> step,
                  pc |-> IF CacheHas(cache, startYear) THEN "delay"
                         ELSE "fetching",
                  notified |-> <<startYear>>, cancelled |-> FALSE,
                  midFetch |-> FALSE])
    /\ alert' = NoAlert
    /\ UNCHANGED <<configVars, geoData, recVars>>

handlePlay == PlayStop \/ PlayReject \/ PlayStart

\* lines 122-127 and 114-116: the pacing timer of run i fires
DelayExpire(i) ==
    /\ runs[i].pc = "delay"
    /\ IF ~isPlayingRef
       THEN /\ Finally(i)
            /\ UNCHANGED <<appVars, fetchVars, selVars, viewVars>>
       ELSE LET y == runs[i].y + runs[i].step IN
            IF ~LoopCond(isPlayingRef, y, runs[i].endYear)
            THEN /\ Finally(i)
                 /\ UNCHANGED <<appVars, fetchVars, selVars, viewVars>>
            ELSE /\ loadData(y, i)
                 /\ runs' = [runs EXCEPT
                       ![i].y = y,
                       ![i].notified = LastVisits(Append(@, y)),
                       ![i].pc = IF CacheHas(cache, y) THEN "delay"
                                 ELSE "fetching"]
                 /\ UNCHANGED <<isPlaying, isPlayingRef>>
    /\ alert' = NoAlert
    /\ UNCHANGED <<configVars, geoData, recVars>>

\* lines 174, 184, 195: the number boxes, disabled while isPlaying
SetStartYear(v) ==
    /\ ~isPlaying
    /\ startYear' = v
    /\ alert' = NoAlert
    /\ UNCHANGED <<endYear, step, appVars, fetchVars, playVars, selVars,
                   mapVars, recVars>>

SetEndYear(v) ==
    /\ ~isPlaying
    /\ endYear' = v
    /\ alert' = NoAlert
    /\ UNCHANGED <<startYear, step, appVars, fetchVars, playVars, selVars,
                   mapVars, recVars>>

SetStep(v) ==
    /\ ~isPlaying
    /\ step' = v
    /\ alert' = NoAlert
    /\ UNCHANGED <<startYear, endYear, appVars, fetchVars, playVars, selVars,
                   mapVars, recVars>>

-----------------------------------------------------------------------------
(* components/VideoGenerator.tsx: handleStartRecording, handleStopRecording  *)
(*                                                                           *)
(* captures[c] is the c-th handleStartRecording invocation:                  *)
(*   phase       "asking" while getDisplayMedia is pending, then "denied"    *)
(*               (the promise rejected) or "granted" (it gave a stream)      *)
(*   ended       the stream's video track was ended by the platform (the     *)
(*               browser's "stop sharing"), which fires its ended event      *)
(*   rec         the state of the MediaRecorder built on the stream:         *)
(*               "none" (not built, or start() threw), "recording",          *)
(*               "inactive"                                                  *)
(*   stopQueued  the recorder's dataavailable and stop events are queued     *)
(*   trackStops  the number of track.stop() calls made on the stream         *)
(*   manual      a press of the stop button reached this recorder before     *)
(*               its onstop had run                                          *)
(* MediaRecorder.stop() makes the recorder inactive at once and queues one   *)
(* task that fires dataavailable and then stop.  The platform does the same  *)
(* to a recorder when all tracks of its stream have ended.  start() is       *)
(* called without a timeslice, so dataavailable fires in that task only.     *)

\* what getDisplayMedia and the MediaRecorder constructor can do
CaptureOutcomes == {"granted", "denied", "unsupported"}

\* e.data.size of the dataavailable event
DataSizes == {0, 1}

\* line 30: the capture request, pending
Asking == [phase |-> "asking", ended |-> FALSE, rec |-> "none",
           stopQueued |-> FALSE, trackStops |-> 0, manual |-> FALSE]

\* a stream whose tracks are live
Held(cap) == cap.phase = "granted" /\ ~cap.ended /\ cap.trackStops = 0

\* MediaRecorder.stop() on a recorder that is not inactive
RecorderStop(cap) == [cap EXCEPT !.rec = "inactive", !.stopQueued = TRUE]

\* the state test dropped: stop() is called on any registered recorder
CanStopInactive(caps, ref) == ref # 0

\* lines 68 and 80: mediaRecorderRef.current && state !== 'inactive'
CanStop(caps, ref) == ref # 0 /\ caps[ref].rec # "inactive"

\* lines 68-70 and 80-82: stop the registered recorder if it is not inactive
StopRegistered(caps, ref) ==
    IF CanStop(caps, ref)
    THEN [caps EXCEPT ![ref] = RecorderStop(@)]
    ELSE caps

\* lines 28-33: the record button, shown while isRecording is false
handleStartRecording ==
    /\ mounted
    /\ ~isRecording
    /\ Len(captures) < MaxRecordings
    /\ captures' = Append(captures, Asking)
    /\ recOp' = "start"
    /\ alert' = NoAlert
    /\ UNCHANGED <<isRecording, mediaRecorderRef, recordedChunksRef,
                   downloads, mounted>>
    /\ UNCHANGED <<appVars, fetchVars, configVars, playVars, selVars, mapVars>>

\* the state a failed start leaves in isRecording: the catch block sets it
FailedStartRecording(was) == TRUE

\* lines 73-76: the catch block leaves isRecording alone
FailedStart(was) == was

\* lines 30-76: the capture request of invocation c settles
CaptureSettles(c, outcome) ==
    /\ captures[c].phase = "asking"
    /\ IF outcome = "denied"
       THEN /\ captures' = [captures EXCEPT ![c].phase = "denied"]
            /\ isRecording' = FailedStart(isRecording)
            /\ alert' = RecordAlert
            /\ UNCHANGED mediaRecorderRef
       ELSE IF outcome = "unsupported"
       THEN /\ captures' = [captures EXCEPT ![c].phase = "granted"]
            /\ isRecording' = FailedStart(isRecording)
            /\ alert' = RecordAlert
            /\ UNCHANGED mediaRecorderRef
       ELSE /\ captures' = [captures EXCEPT ![c].phase = "granted",
                                            ![c].rec = "recording"]
            /\ mediaRecorderRef' = c
            /\ isRecording' = TRUE
            /\ alert' = NoAlert
    /\ recOp' = outcome
    /\ UNCHANGED <<recordedChunksRef, downloads, mounted>>
    /\ UNCHANGED <<appVars, fetchVars, configVars, playVars, selVars, mapVars>>

\* lines 79-83: the stop button
handleStopRecording ==
    /\ mounted
    /\ captures' =
         LET caps == StopRegistered(captures, mediaRecorderRef) IN
         IF mediaRecorderRef # 0 /\ caps[mediaRecorderRef].stopQueued
         THEN [caps EXCEPT ![mediaRecorderRef].manual = TRUE]
         ELSE caps
    /\ recOp' = "stop"
    /\ alert' = NoAlert
    /\ UNCHANGED <<isRecording, mediaRecorderRef, recordedChunksRef,
                   downloads, mounted>>
    /\ UNCHANGED <<appVars, fetchVars, configVars, playVars, selVars, mapVars>>

\* lines 67-71: the platform ends the track of stream c; the platform
\* inactivates the recorder of c and the onended listener, when one was
\* registered, stops the registered recorder
TrackEnded(c) ==
    /\ Held(captures[c])
    /\ captures' =
         LET caps == [captures EXCEPT
                        ![c] = IF @.rec = "recording"
                               THEN [RecorderStop(@) EXCEPT !.ended = TRUE]
                               ELSE [@ EXCEPT !.ended = TRUE]]
         IN  IF captures[c].rec # "none"
             THEN StopRegistered(caps, mediaRecorderRef)
             ELSE caps
    /\ recOp' = "ended"
    /\ alert' = NoAlert
    /\ UNCHANGED <<isRecording, mediaRecorderRef, recordedChunksRef,
                   downloads, mounted>>
    /\ UNCHANGED <<appVars, fetchVars, configVars, playVars, selVars, mapVars>>

\* onstop returns without stopping the tracks
ReleasedNever(n) == n

\* line 59: stream.getTracks().forEach(track => track.stop())
Released(n) == n + 1

\* lines 37-60: the queued task of recorder c: ondataavailable, then onstop
OnStop(c, size) ==
    /\ captures[c].stopQueued
    /\ LET chunks == IF size > 0 THEN Append(recordedChunksRef, c)
                     ELSE recordedChunksRef
       IN  downloads' = Append(downloads, [by |-> c, chunks |-> chunks])
    /\ recordedChunksRef' = <<>>
    /\ isRecording' = FALSE
    /\ captures' = [captures EXCEPT ![c].stopQueued = FALSE,
                                    ![c].trackStops = Released(@)]
    /\ recOp' = "finalize"
    /\ alert' = NoAlert
    /\ UNCHANGED <<mediaRecorderRef, mounted>>
    /\ UNCHANGED <<appVars, fetchVars, configVars, playVars, selVars, mapVars>>

\* lines 21-26: the component unmounts; its effect cleanup runs
Unmount ==
    /\ mounted
    /\ mounted' = FALSE
    /\ isPlayingRef' = FALSE
    /\ recOp' = "unmount"
    /\ alert' = NoAlert
    /\ UNCHANGED <<isRecording, mediaRecorderRef, recordedChunksRef,
                   captures, downloads>>
    /\ UNCHANGED <<appVars, fetchVars, configVars, isPlaying, runs, selVars,
                   mapVars>>

-----------------------------------------------------------------------------
(* The external call of pending request p settles with resp; the           *)
(* fetchHistoricalContext call, the loadData call awaiting it and, for a   *)
(* playback step, the handlePlay loop awaiting that, continue.             *)
FetchComplete(p, resp) ==
    /\ p \in pending
    /\ pending' = pending \ {p}
    /\ cache' = CacheAfter(cache, p.year, resp, p.id)
    /\ IF FetchRaises(resp)
       THEN /\ error' = LoadError
            /\ UNCHANGED <<historicalData, viewVars>>
       ELSE /\ historicalData' = FetchReturn(p.year, resp, p.id)
            /\ Render(geoData, FetchReturn(p.year, resp, p.id))
            /\ UNCHANGED error
    /\ loading' = FALSE
    /\ IF p.run = 0
       THEN UNCHANGED playVars
       ELSE IF ~isPlayingRef
            THEN Finally(p.run)
            ELSE /\ runs' = [runs EXCEPT ![p.run].pc = "delay",
                                         ![p.run].midFetch = FALSE]
                 /\ UNCHANGED <<isPlaying, isPlayingRef>>
    /\ alert' = NoAlert
    /\ UNCHANGED <<nCalls, currentYear, lastLoad, configVars, selVars,
                   geoData, recVars>>

-----------------------------------------------------------------------------
(* Timeline handlers, through App.handleTimelineChange / handleTimelineCommit *)

\* handleSliderChange: onChange(val)
handleSliderChange(val) ==
    /\ currentYear' = val
    /\ alert' = NoAlert
    /\ UNCHANGED <<historicalData, loading, error, lastLoad, fetchVars,
                   configVars, playVars, selVars, mapVars, recVars>>

\* commitInput(val): onChange(finalVal); onCommit(finalVal)
Commit(val) ==
    /\ loadData(commitInput(val), 0)
    /\ alert' = NoAlert
    /\ UNCHANGED <<configVars, playVars, geoData, recVars>>

\* handleSliderCommit, handleKeyUp
handleSliderCommit == Commit(localYear)

\* handleInputBlur, handleInputKeyDown with a parsed number
InputCommit(parsed) == Commit(parsed)

-----------------------------------------------------------------------------
(* components/Map.tsx: the handlers *)

\* lines 30-37: the geometry file has arrived
GeoLoaded ==
    /\ geoData = NoGeo
    /\ geoData' = Features
    /\ Render(Features, historicalData)
    /\ alert' = NoAlert
    /\ UNCHANGED <<appVars, fetchVars, configVars, playVars, selVars, recVars>>

\* lines 42-44 and 54: the map is drawn, with its listeners: the geometry
\* is there and the memo did not throw (regimes.forEach on a snapshot
\* without a regimes field throws during render)
MapDrawn ==
    /\ geoData # NoGeo
    /\ historicalData = NoData \/ historicalData.hasRegimes

\* App.tsx lines 58-61: handleRegimeClick
handleRegimeClick(regime, areaName) ==
    /\ selectedRegime' = regime
    /\ selectedAreaName' = areaName

\* the path listener lets the click bubble up to the svg listener
PropagationNotStopped == FALSE

\* line 154: event.stopPropagation()
StopsPropagation == TRUE

\* lines 153-159: a click on the path of feature f; the listener looks the
\* code up in the index the paths were drawn from.  Without line 154 the
\* svg listener of lines 162-164 would run next, in the same task
FeatureClick(f) ==
    /\ MapDrawn
    /\ f \in geoData
    /\ LET entry == drawn IN
       IF StopsPropagation
       THEN handleRegimeClick(IF f.id \in DOMAIN entry THEN entry[f.id]
                              ELSE NoRegime, f.name)
       ELSE handleRegimeClick(NoRegime, Ocean)
    /\ alert' = NoAlert
    /\ UNCHANGED <<appVars, fetchVars, configVars, playVars, mapVars, recVars>>

\* lines 186-190: a zoom button; the zoom listener of lines 169-171 gives
\* the group the new transform.  The 300 ms transition is taken as one step.
handleZoom(factor) ==
    /\ MapDrawn
    /\ gestures < MaxGestures
    /\ gestures' = gestures + 1
    /\ zoomT' = scaleBy(zoomT, factor)
    /\ gT' = scaleBy(zoomT, factor)
    /\ alert' = NoAlert
    /\ UNCHANGED <<appVars, fetchVars, configVars, playVars, selVars, geoData,
                   drawn, recVars>>

\* lines 162-164: a click on the svg outside every path
BackgroundClick ==
    /\ MapDrawn
    /\ handleRegimeClick(NoRegime, Ocean)
    /\ alert' = NoAlert
    /\ UNCHANGED <<appVars, fetchVars, configVars, playVars, mapVars, recVars>>

-----------------------------------------------------------------------------
(* App.tsx: the error panel *)

\* line 102: the panel with the retry button is rendered
RetryOffered == error # NoError

\* lines 106-108: the retry button.  No step of the application sets error
\* (FetchRaises), so the button is never there to press and Next has no
\* disjunct for it.
Retry ==
    /\ RetryOffered
    /\ loadData(currentYear, 0)
    /\ alert' = NoAlert
    /\ UNCHANGED <<configVars, playVars, geoData, recVars>>

-----------------------------------------------------------------------------
\* App mounted: the initial-load effect has called loadData(currentYear); the
\* generator's number boxes hold values the user has typed
AtRest ==
    /\ cache = << >>
    /\ pending = {[id |-> 1, year |-> InitialYear, run |-> 0]}
    /\ nCalls = 1
    /\ currentYear = InitialYear
    /\ historicalData = NoData
    /\ loading = TRUE
    /\ error = NoError
    /\ lastLoad = InitialYear
    /\ isPlaying = FALSE
    /\ isPlayingRef = FALSE
    /\ runs = << >>
    /\ alert = NoAlert
    /\ selectedRegime = NoRegime
    /\ selectedAreaName = NoArea
    /\ geoData = NoGeo
    /\ isRecording = FALSE
    /\ mediaRecorderRef = 0
    /\ recordedChunksRef = << >>
    /\ captures = << >>
    /\ downloads = << >>
    /\ mounted = TRUE
    /\ recOp = "none"
    /\ drawn = [iso \in {} |-> NoRegime]
    /\ zoomT = IdentityT
    /\ gT = IdentityT
    /\ gestures = 0

Init ==
    /\ AtRest
    /\ startYear \in StartYearInputs
    /\ endYear \in EndYearInputs
    /\ step \in StepInputs

\* a pacing timer fires
TimerFires == \E i \in DOMAIN runs : DelayExpire(i)

\* an external call settles
CallSettles == \E p \in pending, resp \in Responses : FetchComplete(p, resp)

\* the user edits one of the generator's number boxes
EditRange ==
    \/ \E v \in StartYearInputs : SetStartYear(v)
    \/ \E v \in EndYearInputs : SetEndYear(v)
    \/ \E v \in StepInputs : SetStep(v)

\* the user drags the slider
SliderMoves == \E v \in SliderValues : handleSliderChange(v)

\* the user leaves the quick-jump box or presses Enter in it
InputCommits == \E v \in InputValues : InputCommit(v)

Next ==
    \/ handlePlay
    \/ TimerFires
    \/ CallSettles
    \/ EditRange
    \/ SliderMoves
    \/ handleSliderCommit
    \/ InputCommits

Spec == Init /\ [][Next]_vars

\* the step box holds any value it can deliver
InitRun ==
    /\ AtRest
    /\ startYear \in StartYearInputs
    /\ endYear \in EndYearInputs
    /\ step \in StepBoxValues

\* the pacing timer of run i fires
TimerOf(i) == i \in DOMAIN runs /\ DelayExpire(i)

NextRun ==
    \/ handlePlay
    \/ TimerFires
    \/ CallSettles

\* the playback loop alone, for every step the box can deliver; every
\* pending external call settles and every pacing timer fires
SpecRun ==
    /\ InitRun
    /\ [][NextRun]_vars
    /\ WF_vars(CallSettles)
    /\ \A i \in 1 .. MaxRuns : WF_vars(TimerOf(i))

\* a capture request settles
RequestSettles ==
    \E c \in DOMAIN captures, o \in CaptureOutcomes : CaptureSettles(c, o)

\* the platform ends a stream ("stop sharing")
SharingStops == \E c \in DOMAIN captures : TrackEnded(c)

\* a recorder's queued stop task runs
RecorderStopped ==
    \E c \in DOMAIN captures, size \in DataSizes : OnStop(c, size)

\* the user clicks a country
FeatureClicks == \E f \in Features : FeatureClick(f)

\* the user presses a zoom button
ZoomGesture == \E factor \in ZoomFactors : handleZoom(factor)

NextView ==
    \/ GeoLoaded
    \/ ZoomGesture
    \/ CallSettles
    \/ InputCommits

\* the map's view, with loads from the timeline's quick-jump box
SpecView == Init /\ [][NextView]_vars

\* an external call settles with a snapshot of ContestedLists
ContestedSettles ==
    \E p \in pending, resp \in ContestedResponses : FetchComplete(p, resp)

NextMap ==
    \/ GeoLoaded
    \/ ContestedSettles
    \/ FeatureClicks
    \/ BackgroundClick
    \/ CallSettles
    \/ InputCommits

\* the map and the selection, with loads from the timeline's quick-jump box
SpecMap == Init /\ [][NextMap]_vars

NextRec ==
    \/ handleStartRecording
    \/ RequestSettles
    \/ handleStopRecording
    \/ SharingStops
    \/ RecorderStopped
    \/ Unmount

\* the recording session of the generator, with the rest of the application
\* at rest
SpecRec == Init /\ [][NextRec]_vars

\* the generator's range is one of two: 0 to 1, which plays, and 3 to 1,
\* which the safety check rejects
InitGen ==
    /\ AtRest
    /\ startYear \in StartYearInputs
    /\ endYear = 1
    /\ step = 1

\* the service rejects the call or answers with a well-formed snapshot
\* of the requested year
PlainResponses ==
    { r \in Responses : r.kind = "reject" } \cup
    { r \in JsonResponses : r.data.yearOff = 0 /\ r.data.hasRegimes }

\* an external call settles with one of PlainResponses
PlainSettles ==
    \E p \in pending, resp \in PlainResponses : FetchComplete(p, resp)

NextGen ==
    \/ handlePlay
    \/ TimerFires
    \/ PlainSettles
    \/ handleStartRecording
    \/ RequestSettles
    \/ handleStopRecording
    \/ SharingStops
    \/ RecorderStopped

\* the generator: a playback run and a recording session side by side
SpecGen == InitGen /\ [][NextGen]_vars

-----------------------------------------------------------------------------
(* Playback: C1 - C5 *)

\* the years s, s+st, ... not above e, in order
RunYears(s, e, st) == [k \in 1 .. ((e - s) \div st + 1) |-> s + (k - 1) * st]

\* the runs whose handlePlay invocation has not returned
Suspended == {i \in DOMAIN runs : runs[i].pc # "done"}

\* run i calls onYearChange in this step
Notifies(i) ==
    /\ runs'[i].pc # "done"
    /\ runs'[i].notified # runs[i].notified

\* C1: at most one playback loop is live at any time: once a later press
\* has entered the loop, no loop entered by an earlier press advances to
\* another year while the later one has not returned.
C1_AtMostOneLiveLoop ==
    [][\A i \in DOMAIN runs :
          (\E j \in Suspended : j > i) => ~Notifies(i)]_vars

\* C2: a run that was stopped (a press while it was suspended in its fetch
\* or in its pacing delay) never calls onYearChange again, whatever follows
\* the stop.
C2_StoppedRunNeverNotifies ==
    [][\A i \in DOMAIN runs : runs[i].cancelled => ~Notifies(i)]_vars

\* C3: the year passed to loadData is never 0, through every entry point.
C3_NeverLoadsYearZero == lastLoad # 0

\* C4: a run entered with step > 0 that the user did not stop returns only
\* after it has notified exactly startYear, startYear+step, ... up to the
\* largest such year <= endYear, in that order and once each.
C4_RunVisitsWholeRange ==
    [][\A i \in DOMAIN runs :
          ( /\ runs[i].pc # "done"
            /\ runs'[i].pc = "done"
            /\ ~runs[i].cancelled
            /\ runs[i].step > 0 )
          => runs[i].notified =
                RunYears(runs[i].notified[1], runs[i].endYear, runs[i].step)
      ]_vars

\* C5: a press at idle with startYear > endYear issues no notification and
\* no fetch and leaves the playback state as it was.
C5_RangeErrorRejected ==
    [][( /\ ~isPlayingRef
         /\ startYear > endYear
         /\ handlePlay )
       => /\ isPlayingRef' = isPlayingRef
          /\ isPlaying' = isPlaying
          /\ runs' = runs
          /\ pending' = pending
          /\ nCalls' = nCalls
          /\ lastLoad' = lastLoad
          /\ UNCHANGED <<currentYear, historicalData, loading, error, cache>>
      ]_vars

\* a rejected press has happened and the generator is idle, its range still
\* the rejected one
C5_Witness ==
    /\ alert = RangeAlert
    /\ startYear > endYear
    /\ ~isPlayingRef
    /\ ~isPlaying

-----------------------------------------------------------------------------
(* Snapshot cache and fetcher: C6 - C10 *)

\* the fallback shape for year y: that year, a non-empty summary, regimes = []
FallbackShape(d, y) ==
    /\ d.oid # 0
    /\ d.year = y
    /\ d.summary # ""
    /\ d.hasRegimes
    /\ d.regimes = <<>>

\* this step is a loadData(lastLoad') call
LoadsYear == \E run \in 0 .. MaxRuns : loadData(lastLoad', run)

\* C6: when the external call for year Y fails (network error, empty
\* response, unparseable response) the call does not raise and what it
\* returns is the fallback snapshot for Y.
C6_FailureYieldsFallback ==
    [][\A p \in pending : \A r \in FailureResponses :
          FetchComplete(p, r)
          => /\ error' = NoError
             /\ FallbackShape(historicalData', p.year)]_vars

\* a failed call has returned its fallback, which is displayed and not cached
C6_Witness ==
    /\ FallbackShape(historicalData, historicalData.year)
    /\ historicalData.summary = Unavailable
    /\ ~CacheHas(cache, historicalData.year)
    /\ error = NoError

\* C7 as stated: after a failed getSnapshot(Y) the cache has no entry for Y.
C7_NoEntryAfterFailure ==
    [][\A p \in pending : \A r \in FailureResponses :
          FetchComplete(p, r) => ~CacheHas(cache', p.year)]_vars

\* C7 amended: a fallback is never stored: a failed getSnapshot(Y) leaves
\* the cache as it was; a getSnapshot(Y) that finds no entry for Y invokes
\* the external service; and when that call succeeds its result is stored
\* under Y and returned.
C7_FallbackNeverCached ==
    [][ /\ \A p \in pending : \A r \in FailureResponses :
              FetchComplete(p, r) => cache' = cache
        /\ \A y \in DOMAIN cache' : cache'[y].summary # Unavailable
        /\ (LoadsYear /\ ~CacheHas(cache, lastLoad'))
              => \E q \in pending' \ pending : q.year = lastLoad'
        /\ \A p \in pending : \A r \in JsonResponses :
              FetchComplete(p, r)
              => /\ CacheHas(cache', p.year)
                 /\ cache'[p.year] = historicalData'
                 /\ historicalData'.oid = p.id
                 /\ historicalData'.regimes = r.data.regimes
      ]_vars

\* a call for a year has failed (its fallback is displayed, the year has no
\* entry) and a second external call for that year is in flight
C7_Witness ==
    /\ historicalData.summary = Unavailable
    /\ ~CacheHas(cache, historicalData.year)
    /\ \E q \in pending : q.year = historicalData.year

\* C8: with Y in the cache getSnapshot(Y) returns the cached object itself,
\* makes no external call and leaves the cache unchanged.
C8_WarmCacheReturnsSameObject ==
    [][(LoadsYear /\ CacheHas(cache, lastLoad'))
       => /\ historicalData' = cache[lastLoad']
          /\ cache' = cache
          /\ pending' = pending
          /\ nCalls' = nCalls]_vars

\* Two presses have entered the loop at year 0 and only one external call
\* was made after the initial load: the second press was answered from the
\* cache, with the object the first one stored.
C8_Witness ==
    /\ Len(runs) = 2
    /\ nCalls = 2
    /\ runs[2].pc = "delay"
    /\ runs[2].notified = <<0>>
    /\ lastLoad = 0
    /\ CacheHas(cache, 0)
    /\ historicalData = cache[0]
    /\ historicalData.oid = 2

\* C9: a response that parses as JSON but has no regimes field is treated
\* as a failure: the fallback is returned and nothing is stored.
C9_MissingRegimesIsFailure ==
    [][\A p \in pending : \A r \in JsonResponses :
          (~r.data.hasRegimes /\ FetchComplete(p, r))
          => /\ FallbackShape(historicalData', p.year)
             /\ cache' = cache]_vars

\* C10: every snapshot returned for a requested year Y, and every cache
\* entry stored under Y, has year = Y, whatever year the service reported.
C10_YearIsRequestedYear ==
    [][ /\ \A p \in pending : \A r \in Responses :
              FetchComplete(p, r) => historicalData'.year = p.year
        /\ (LoadsYear /\ CacheHas(cache, lastLoad'))
              => historicalData'.year = lastLoad'
        /\ \A y \in DOMAIN cache' : cache'[y].year = y
      ]_vars

\* a parsed answer is stored under the year it was requested for and displayed
C10_Witness ==
    \E y \in DOMAIN cache :
        /\ historicalData = cache[y]
        /\ cache[y].year = y
        /\ cache[y].summary # Unavailable

\* C11: the cache is append-only: an entry, once stored, is never removed
\* and never replaced by another snapshot, whatever calls interleave.
C11_CacheAppendOnly ==
    [][\A y \in DOMAIN cache :
          CacheHas(cache', y) /\ cache'[y] = cache[y]]_vars

-----------------------------------------------------------------------------
(* Recording: C12 - C15 *)

\* the files saved by the onstop of recorder c
Artifacts(c) == Cardinality({k \in DOMAIN downloads : downloads[k].by = c})

\* recorder c was stopped and its onstop has run
Finalized(cap) == cap.rec = "inactive" /\ ~cap.stopQueued

\* this step runs the onstop of recorder c
Finalizes(c) == captures[c].stopQueued /\ ~captures'[c].stopQueued

\* C12: every recording that was started and is ended, by the stop button,
\* by the platform ending the stream, or by both in either order, is
\* finalized exactly once: the first signal queues its onstop and a later
\* one queues nothing; its onstop saves one file, stops the tracks once and
\* sets the state to idle; no recorder ever saves two files or has its
\* tracks stopped twice.
C12_FinalizeExactlyOnce ==
    [][\A c \in DOMAIN captures :
          /\ ( /\ captures[c].rec = "recording"
               /\ \/ handleStopRecording /\ mediaRecorderRef = c
                  \/ TrackEnded(c) )
             => captures'[c].rec = "inactive" /\ captures'[c].stopQueued
          /\ captures[c].rec = "inactive"
             => /\ captures'[c].rec = "inactive"
                /\ captures'[c].stopQueued => captures[c].stopQueued
          /\ Finalizes(c)
             => /\ Artifacts(c)' = 1
                /\ captures'[c].trackStops = 1
                /\ ~isRecording'
          /\ (isRecording /\ ~isRecording')
             => \E d \in DOMAIN captures : Finalizes(d)
          /\ Finalized(captures'[c])
             => Artifacts(c)' = 1 /\ captures'[c].trackStops = 1
          /\ Artifacts(c)' <= 1
          /\ captures'[c].trackStops <= 1
      ]_vars

\* a recording that both the platform and the stop button ended has been
\* finalized: one file, its tracks stopped once, the state idle
C12_Witness ==
    \E c \in DOMAIN captures :
        /\ captures[c].ended
        /\ captures[c].manual
        /\ Finalized(captures[c])
        /\ Artifacts(c) = 1
        /\ captures[c].trackStops = 1
        /\ ~isRecording

\* C13: the tracks of a recording's stream are stopped exactly once on every
\* exit path: the onstop that follows a manual or an external stop stops
\* them once, and the teardown of the component during a recording leaves
\* the stream released or its release on the way.
C13_ReleasedOnEveryExit ==
    [][\A c \in DOMAIN captures :
          /\ captures'[c].trackStops <= 1
          /\ Finalizes(c) => captures'[c].trackStops = 1
          /\ (Unmount /\ captures[c].rec = "recording")
             => \/ captures'[c].trackStops = 1
                \/ captures'[c].stopQueued
      ]_vars

\* C14: when the capture request is rejected an alert is raised, the
\* recording state stays as it was (idle stays idle), no chunk is
\* accumulated, and no recorder is built or registered.
C14_DeniedCaptureStaysIdle ==
    [][\A c \in DOMAIN captures :
          CaptureSettles(c, "denied")
          => /\ alert' = RecordAlert
             /\ isRecording' = isRecording
             /\ recordedChunksRef' = recordedChunksRef
             /\ recordedChunksRef' = <<>>
             /\ mediaRecorderRef' = mediaRecorderRef
             /\ downloads' = downloads
             /\ captures'[c].rec = "none"
             /\ \A d \in DOMAIN captures \ {c} : captures'[d] = captures[d]
      ]_vars

\* a capture request was denied: the alert is up and the session is idle
C14_Witness ==
    /\ recOp = "denied"
    /\ alert = RecordAlert
    /\ ~isRecording
    /\ mediaRecorderRef = 0
    /\ recordedChunksRef = <<>>
    /\ \E c \in DOMAIN captures : captures[c].phase = "denied"

\* no recorder is registered, or the registered one was already stopped
SessionIdle ==
    mediaRecorderRef = 0 \/ captures[mediaRecorderRef].rec = "inactive"

\* what the program holds of a capture (the record without the press mark)
Handle(cap) == [cap EXCEPT !.manual = FALSE]

\* C15: the stop operation on an idle session (never started, or already
\* stopped) does nothing: no file, no track stopped, no event queued, the
\* recording state and the chunks as they were.
C15_StopWhenIdleIsNoOp ==
    [][(SessionIdle /\ handleStopRecording)
       => /\ downloads' = downloads
          /\ isRecording' = isRecording
          /\ recordedChunksRef' = recordedChunksRef
          /\ mediaRecorderRef' = mediaRecorderRef
          /\ \A c \in DOMAIN captures :
                Handle(captures'[c]) = Handle(captures[c])
      ]_vars

\* the stop operation ran on a session already finalized; the one file of
\* the recording is still the only one
C15_Witness ==
    /\ recOp = "stop"
    /\ ~isRecording
    /\ mediaRecorderRef # 0
    /\ Finalized(captures[mediaRecorderRef])
    /\ captures[mediaRecorderRef].trackStops = 1
    /\ Len(downloads) = 1

-----------------------------------------------------------------------------
(* Playback order and termination: C16 - C18 *)

\* C16: within one run the observer is told that year Y is the active year
\* only after getSnapshot(Y) has resolved: in the state a notification of
\* the run leaves, no external call of the run is pending and the snapshot
\* on display is the one of the notified year; and the next notification of
\* the run comes after that.
C16_NotifiedAfterSnapshotResolved ==
    [][\A i \in DOMAIN runs' :
          ( /\ runs'[i].pc # "done"
            /\ (i \in DOMAIN runs => runs'[i].notified # runs[i].notified) )
          => /\ ~\E q \in pending' : q.run = i
             /\ currentYear' = runs'[i].y
             /\ historicalData'.year = runs'[i].y
      ]_vars

\* C17: within one run the years notified are strictly increasing, for
\* every step a run can be started with: each notification after the first
\* is for a year above the one before.
C17_YearsStrictlyIncrease ==
    [][\A i \in DOMAIN runs : Notifies(i) => runs'[i].y > runs[i].y]_vars

\* the handlePlay invocation i has entered the loop and has not returned
Running(i) == i \in DOMAIN runs /\ runs[i].pc # "done"

\* C18: every run that is started eventually returns (by passing endYear or
\* after a stop), provided every external call settles and every pacing
\* timer fires; a run that the bound on external calls holds up is excused.
C18_RunEventuallyReturns ==
    \A i \in 1 .. MaxRuns :
        [](Running(i) => <>(~Running(i) \/ nCalls = MaxCalls))

-----------------------------------------------------------------------------
(* Error panel: C19 *)

\* C19: when the fetch of a year's snapshot fails the application shows its
\* error panel, which offers a retry, and the retry calls loadData for the
\* current year.
C19_FailureOffersRetry ==
    [][ /\ \A p \in pending : \A r \in FailureResponses :
              FetchComplete(p, r) => RetryOffered'
        /\ Retry => (lastLoad' = currentYear /\ LoadsYear)
      ]_vars

-----------------------------------------------------------------------------
(* Map clicks: C20 *)

\* C20: a click on a feature whose code some regime of the displayed
\* snapshot lists selects the owning regime (the last one listing it); a
\* click on a feature no regime lists selects no regime, with the feature's
\* name as area name; a click on the background selects no regime with the
\* background's area name; and a feature click never ends with the
\* background's selection.
C20_ClickResolvesSelection ==
    [][ /\ \A f \in Features :
              FeatureClick(f)
              => /\ Owners(historicalData, f.id) # {}
                    => selectedRegime' =
                         historicalData.regimes[
                             MaxOf(Owners(historicalData, f.id))]
                 /\ Owners(historicalData, f.id) = {}
                    => /\ selectedRegime' = NoRegime
                       /\ selectedAreaName' = f.name
                 /\ ~(selectedRegime' = NoRegime /\ selectedAreaName' = Ocean)
        /\ BackgroundClick
              => (selectedRegime' = NoRegime /\ selectedAreaName' = Ocean)
      ]_vars

\* a click on Italy, which Rome lists, has selected Rome
C20_Witness ==
    /\ selectedRegime = Rome
    /\ selectedAreaName = "Italy"
    /\ historicalData.oid # 0
    /\ Owners(historicalData, "ITA") # {}


-----------------------------------------------------------------------------
(* Map index: C21 *)

\* C21: the index built from the displayed snapshot maps every region code
\* to the last regime, in the snapshot's list order, that lists it: a later
\* regime claiming a code takes it from an earlier one, and a code that no
\* regime lists has no entry and is filled with the neutral colour.
C21_LastRegimeOwnsCode ==
    MapDrawn /\ historicalData # NoData =>
        LET index == countryColorMap(historicalData)
        IN  \A f \in geoData :
                LET owners == Owners(historicalData, f.id) IN
                IF owners = {}
                THEN /\ f.id \notin DOMAIN index
                     /\ fill(index, f) = NeutralFill
                ELSE /\ f.id \in DOMAIN index
                     /\ index[f.id] = historicalData.regimes[MaxOf(owners)]
                     /\ fill(index, f) =
                          historicalData.regimes[MaxOf(owners)].color

\* a drawn snapshot in which two regimes list ITA and none lists FRA
C21_Witness ==
    /\ MapDrawn
    /\ historicalData # NoData
    /\ Cardinality(Owners(historicalData, "ITA")) = 2
    /\ Owners(historicalData, "FRA") = {}

-----------------------------------------------------------------------------
(* Generator: C22 *)

\* a step of the recording session: the record or stop button, the capture
\* request settling, the stream ending, the recorder's stop task
RecordingStep ==
    \/ handleStartRecording
    \/ RequestSettles
    \/ handleStopRecording
    \/ SharingStops
    \/ RecorderStopped

\* a step of the playback: the play button, a pacing timer, the snapshot of
\* a playback step arriving
PlaybackStep ==
    \/ handlePlay
    \/ TimerFires
    \/ \E p \in pending, resp \in Responses :
          p.run # 0 /\ FetchComplete(p, resp)

\* C22: a step of the recording session leaves the playback state (the
\* running flag and its ref, the runs, the current year) as it was, and a
\* step of the playback leaves the recording state, the chunks, the capture
\* handles and the downloads as they were.
C22_RecordingAndPlaybackIndependent ==
    [][ /\ RecordingStep =>
              UNCHANGED <<isPlaying, isPlayingRef, runs, currentYear>>
        /\ PlaybackStep =>
              UNCHANGED <<isRecording, mediaRecorderRef, recordedChunksRef,
                          captures, downloads>> ]_vars

\* a recording is on while a run that has stepped to its second year is
\* still live
C22_Witness ==
    /\ isRecording
    /\ mediaRecorderRef # 0
    /\ captures[mediaRecorderRef].rec = "recording"
    /\ \E i \in DOMAIN runs :
          /\ runs[i].pc # "done"
          /\ Len(runs[i].notified) >= 2

-----------------------------------------------------------------------------
(* Stop during a fetch: C23 *)

\* C23: when the snapshot of a playback step arrives after the stop button
\* was pressed during that fetch, the run ends there: the displayed snapshot
\* stays as it was, no pacing delay is started and the run loads no later
\* year.
C23_StopDuringFetchNoSideEffects ==
    [][\A p \in pending :
          (/\ p.run # 0
           /\ runs[p.run].midFetch
           /\ p \notin pending')
          => /\ historicalData' = historicalData
             /\ runs'[p.run].pc = "done"]_vars

-----------------------------------------------------------------------------
(* Map index and view: C24, C25 *)

\* C24: whenever the map is drawn, the index its fills were computed from
\* and its tooltip and click listeners look codes up in is the index built
\* from the snapshot the map was last given, never that of an earlier
\* snapshot nor a mix.
C24_IndexOfLatestSnapshot ==
    MapDrawn => drawn = countryColorMap(historicalData)

\* the map is drawn from the snapshot of a later load, which replaced an
\* earlier snapshot with another index
C24_Witness ==
    /\ MapDrawn
    /\ historicalData.oid >= 2
    /\ historicalData.regimes \in ContestedLists
    /\ drawn = countryColorMap(historicalData)
    /\ \E y \in DOMAIN cache :
          /\ cache[y].oid < historicalData.oid
          /\ countryColorMap(cache[y]) # drawn

\* C25: the transform applied to the drawn map changes in zoom gestures
\* only; a snapshot change and the redraw that follows leave it as it was.
C25_TransformChangesOnGesturesOnly ==
    [][gT' # gT => ZoomGesture]_vars

-----------------------------------------------------------------------------
(* Overlapping loads: C26 - C28 *)

\* C26: whenever no load is in flight, the displayed snapshot is that of
\* the application's current year, however the loadData calls interleave
\* and in whatever order their fetches complete.
C26_DisplayedYearIsCurrentYear ==
    pending = {} /\ historicalData # NoData =>
        historicalData.year = currentYear

\* C27: the loading flag is set whenever a fetch started by loadData is
\* still pending, also when loads overlap and one completes before the
\* others.
C27_LoadingWhilePending ==
    pending # {} => loading

\* the regimes of snapshot d
RegimesOf(d) == {d.regimes[k] : k \in DOMAIN d.regimes}

\* C28: a selected regime is one of the regimes of the displayed snapshot;
\* a click made while a load is pending leaves no regime of the replaced
\* snapshot selected once the new snapshot is displayed.
C28_SelectedRegimeIsDisplayed ==
    selectedRegime # NoRegime => selectedRegime \in RegimesOf(historicalData)

-----------------------------------------------------------------------------
(* Recording session: C29, C30 *)

\* the recorders that are recording, and the streams whose tracks are live
Recording == {c \in DOMAIN captures : captures[c].rec = "recording"}
HeldStreams == {c \in DOMAIN captures : Held(captures[c])}

\* at most one recorder records and at most one stream is held, and the
\* recorder that records is the registered one
OneActiveRecorder ==
    /\ Cardinality(Recording) <= 1
    /\ Cardinality(HeldStreams) <= 1
    /\ \A c \in Recording : mediaRecorderRef = c

\* C29: at most one recorder and one capture handle are active at any
\* time, the active recorder is the one the stop button and the
\* termination listeners act on, and the termination of one stream stops
\* no recorder but its own, also when record is pressed again while a
\* capture request is pending.
C29_SingleActiveRecorder ==
    [][ /\ OneActiveRecorder'
        /\ \A c \in DOMAIN captures :
              TrackEnded(c) =>
                  \A d \in DOMAIN captures \ {c} : captures'[d] = captures[d]
      ]_vars

\* C30: no stream is held while the session is idle with no recorder
\* registered; a start that fails after the stream was granted releases the
\* stream's tracks.
C30_FailedStartReleasesHandle ==
    ~isRecording /\ mediaRecorderRef = 0 => HeldStreams = {}
=============================================================================
